---- MODULE Spec2Model ----
(***************************************************************************)
(* Model of the solana-vanity-wallet search program (src/src/main.rs) and  *)
(* of the library helpers it duplicates (src/src/lib.rs).                  *)
(*                                                                         *)
(* The program validates a prefix, spawns one statistics thread and W      *)
(* search workers that share an AtomicBool `found`, an AtomicU64           *)
(* `total_iterations` and a mutex-protected slot `result_data`; the main   *)
(* thread waits for the workers (rayon for_each), joins the statistics     *)
(* thread and takes the slot.                                              *)
(*                                                                         *)
(* Text is modelled as a sequence of one-character strings.  Every atomic  *)
(* access to shared memory is one action; thread-local computation is      *)
(* merged into the preceding shared access of the same thread.             *)
(***************************************************************************)
EXTENDS Integers, Sequences, FiniteSets, TLC

\* ------------------------------------------------------------------ bounds
\* Number of search workers (cpu_count on the modelled machine).
NumWorkers == 2
\* Loop bodies the workers may enter, all together, inside the explored window.
MaxDraws == 2
\* Length of the prefixes the command line is fed.
MaxPrefixLen == 2
\* Length of the prefixes the library's difficulty estimate is asked about:
\* the first length at which 58^len leaves the 64-bit range.
MaxLibLen == 11
\* Library calls made one after another in one run.
MaxCalls == 2
\* Length of the modelled encoded addresses: as long as the longest prefix.
AddrLen == MaxPrefixLen

\* ------------------------------------------------------- program constants
\* main.rs:206-207, the batch in which a worker publishes its local count.
BATCH == 1000

\* Candidates a worker has already drawn, none matching, when exploration is
\* entered in the middle of a search (InitWarm): one short of a full batch.
Warm == BATCH - 1

Workers == 1..NumWorkers

None == [none |-> TRUE]

\* ------------------------------------------------------------------- text
\* main.rs:85, the alphabet of the command line's validator (it holds "I").
main_BASE58_ALPHABET ==
  << "1","2","3","4","5","6","7","8","9",
     "A","B","C","D","E","F","G","H","I","J","K","L","M","N",
     "P","Q","R","S","T","U","V","W","X","Y","Z",
     "a","b","c","d","e","f","g","h","i","j","k",
     "m","n","o","p","q","r","s","t","u","v","w","x","y","z" >>

\* lib.rs:51, the alphabet of the library's validator.
lib_BASE58_ALPHABET ==
  << "1","2","3","4","5","6","7","8","9",
     "A","B","C","D","E","F","G","H","J","K","L","M","N",
     "P","Q","R","S","T","U","V","W","X","Y","Z",
     "a","b","c","d","e","f","g","h","i","j","k",
     "m","n","o","p","q","r","s","t","u","v","w","x","y","z" >>

\* The alphabet bs58::encode emits (main.rs:201 uses the crate's default,
\* the Bitcoin alphabet, quoted in the comments main.rs:83 and lib.rs:49).
BS58_ENCODE_ALPHABET ==
  { "1","2","3","4","5","6","7","8","9",
    "A","B","C","D","E","F","G","H","J","K","L","M","N",
    "P","Q","R","S","T","U","V","W","X","Y","Z",
    "a","b","c","d","e","f","g","h","i","j","k",
    "m","n","o","p","q","r","s","t","u","v","w","x","y","z" }

\* str::contains(char) on an alphabet constant.
contains(alphabet, c) == \E i \in DOMAIN alphabet : alphabet[i] = c

\* main.rs:82-92
main_is_valid_base58_prefix(p) ==
  IF p = << >> THEN FALSE
  ELSE \A i \in DOMAIN p : contains(main_BASE58_ALPHABET, p[i])

\* lib.rs:48-58
lib_is_valid_base58_prefix(p) ==
  IF p = << >> THEN FALSE
  ELSE \A i \in DOMAIN p : contains(lib_BASE58_ALPHABET, p[i])

\* str::starts_with, main.rs:210
starts_with(s, p) == Len(p) <= Len(s) /\ SubSeq(s, 1, Len(p)) = p

\* Characters the command line is fed in the explored inputs.
InputChars == { "A", "I", "O", "0", "l", "_", "+", " " }

\* Characters of the explored addresses: a sample of what bs58 emits.
AddrChars == { "A", "B" } \cap BS58_ENCODE_ALPHABET

SeqsUpTo(S, n) == UNION { [1..k -> S] : k \in 0..n }

Prefixes == SeqsUpTo(InputChars, MaxPrefixLen)

\* The addresses a candidate can have: bs58::encode of a public key.
Addresses == [1..AddrLen -> AddrChars]

\* ------------------------------------------------------------ key material
\* The collaborators are one-way functions of their input: each is the
\* term naming the function and its argument, so two values are equal only
\* when they were computed the same way from the same entropy.

\* RngCore::fill_bytes: the bytes of draw n of caller `who`, fresh each time.
fill_bytes(who, n, len) == [ op |-> "entropy", who |-> who, n |-> n, bytes |-> len ]

\* BIP39: the words of a mnemonic of `bytes` bytes of entropy, 11 bits a
\* word over the entropy and its checksum of one bit per 32.
word_count(bytes) == (bytes * 8 + (bytes * 8) \div 32) \div 11

\* Mnemonic::from_entropy_in(Language::English, &entropy)
from_entropy_in(e) == [ op |-> "mnemonic", words |-> word_count(e.bytes), entropy |-> e ]

\* Mnemonic::to_seed(""): the 64-byte seed.
to_seed(m) == [ op |-> "to_seed", of |-> m ]

\* &seed[..32]
first32(seed) == [ op |-> "first32", of |-> seed ]

\* lib.rs:7-17, SLIP10 derivation along m/44'/501'/0'/0'.
derive_solana_seed(seed) == [ op |-> "slip10", path |-> "m/44'/501'/0'/0'", of |-> seed ]

\* Keypair::from_seed
from_seed(s) == [ op |-> "keypair", seed |-> s ]

\* Keypair::to_bytes
to_bytes(kp) == [ op |-> "to_bytes", of |-> kp ]

\* bs58::encode(..).into_string() of secret material
bs58_encode(b) == [ op |-> "bs58", of |-> b ]

\* Mutant of generate_keypair: the mode requested is honoured on the first
\* call only, later calls return a mnemonic regardless.
generate_keypair_sticky(with_mnemonic, who, n) ==
  IF with_mnemonic \/ n > 1
  THEN [ mnemonic |-> from_entropy_in(fill_bytes(who, n, 16)),
         keypair |-> from_seed(derive_solana_seed(to_seed(
                       from_entropy_in(fill_bytes(who, n, 16))))) ]
  ELSE [ mnemonic |-> None, keypair |-> from_seed(fill_bytes(who, n, 32)) ]

\* lib.rs:20-46, generate_keypair(with_mnemonic) on draw n of caller `who`:
\* the Option<String> mnemonic and the keypair.
generate_keypair(with_mnemonic, who, n) ==
  IF with_mnemonic
  THEN LET entropy == fill_bytes(who, n, 16)
           mnemonic == from_entropy_in(entropy)
           seed == to_seed(mnemonic)
           derived_seed == derive_solana_seed(seed)
       IN [ mnemonic |-> mnemonic, keypair |-> from_seed(derived_seed) ]
  ELSE LET seed == fill_bytes(who, n, 32)
       IN [ mnemonic |-> None, keypair |-> from_seed(seed) ]

\* ------------------------------------------------------ 64-bit arithmetic
\* A u64 is its 16-bit limbs, least significant first; products of a limb
\* and a small factor stay far inside 32 bits.
LIMB == 2^16
U64_LIMBS == 64 \div 16
\* A width no power of 58 of an explored length leaves: the reference.
WIDE_LIMBS == U64_LIMBS + 1

limbs_of(n, width) == [ i \in 1..width |-> IF i = 1 THEN n ELSE 0 ]

\* x * k + carry from limb i on: the limbs kept and the carry out of the top.
RECURSIVE mul_from(_, _, _, _)
mul_from(x, k, i, carry) ==
  IF i > Len(x) THEN [ limbs |-> << >>, carry |-> carry ]
  ELSE LET p == x[i] * k + carry
           rest == mul_from(x, k, i + 1, p \div LIMB)
       IN [ limbs |-> << p % LIMB >> \o rest.limbs, carry |-> rest.carry ]

\* u64::pow(self, exp): the product reduced modulo 2^64 and whether a
\* multiplication overflowed. Every partial product of the library's
\* square-and-multiply divides the result, so one overflows exactly when
\* the running product here does.
RECURSIVE u64_pow(_, _)
u64_pow(base, exp) ==
  IF exp = 0 THEN [ value |-> limbs_of(1, U64_LIMBS), overflow |-> FALSE ]
  ELSE LET r == u64_pow(base, exp - 1)
           m == mul_from(r.value, base, 1, 0)
       IN [ value |-> m.limbs, overflow |-> r.overflow \/ m.carry # 0 ]

\* Mutant of half: each limb is halved on its own.
half_lowlimb(x) == [ i \in 1..Len(x) |-> x[i] \div 2 ]

\* x / 2 on a u64.
half(x) ==
  [ i \in 1..Len(x) |->
      x[i] \div 2 + (IF i < Len(x) THEN (x[i + 1] % 2) * (LIMB \div 2) ELSE 0) ]

\* main.rs:28-34. With overflow checks (a debug build) an overflowing pow
\* panics; without them (a release build) it wraps.
main_calculate_expected_iterations(p, overflow_checks) ==
  LET base == 58
      length == Len(p)
      pow == u64_pow(base, length)
  IN IF pow.overflow /\ overflow_checks
     THEN [ panicked |-> TRUE, value |-> << >> ]
     ELSE [ panicked |-> FALSE, value |-> half(pow.value) ]

\* lib.rs:60-66.
lib_calculate_expected_iterations(p, overflow_checks) ==
  LET base == 58
      length == Len(p)
      pow == u64_pow(base, length)
  IN IF pow.overflow /\ overflow_checks
     THEN [ panicked |-> TRUE, value |-> << >> ]
     ELSE [ panicked |-> FALSE, value |-> half(pow.value) ]

\* Characters of the prefixes the estimate is asked about.
LibChars == { "A", "B" }
LibPrefixes == SeqsUpTo(LibChars, MaxLibLen)

VARIABLES
  prefix,            \* args.prefix
  mpc,               \* position of the main thread
  exit_code,         \* process exit code, -1 while running
  found,             \* AtomicBool found
  total_iterations,  \* AtomicU64 total_iterations
  result_data,       \* Mutex<Option<..>>: None or the stored record
  result,            \* main's `result` after take()
  pc,                \* position of each worker
  local_iterations,  \* each worker's local_iterations
  pubkey,            \* each worker's current candidate address (<< >>: none)
  final_iterations,  \* each worker's final_iterations
  spc,               \* position of the statistics thread
  last_count,        \* the statistics thread's last_count
  late_samples,      \* history: status lines printed with found already true
  draws,             \* history: loop bodies entered inside the explored window
  generated,         \* history: candidates generated by each worker
  overrun,           \* history: candidates a worker generated while found was true
  slot_writers,      \* history: the workers that assigned result_data, in order
  console,           \* what the main thread has printed of the result, in order
  written,           \* what the process has created on disk: "dir", "file"
  call,              \* library call under study: the function and its arguments
  ret                \* what that call returned

vars == << prefix, mpc, exit_code, found, total_iterations, result_data, result,
           pc, local_iterations, pubkey, final_iterations, spc, last_count,
           late_samples, draws, generated, overrun, slot_writers, console, written,
           call, ret >>

shared == << found, total_iterations, result_data >>
mainv  == << prefix, mpc, exit_code, result, console, written >>
libv   == << call, ret >>
statv  == << spc, last_count, late_samples >>
workv  == << pc, local_iterations, pubkey, final_iterations,
             draws, generated, overrun, slot_writers >>

RECURSIVE SumOver(_, _)
SumOver(f, S) ==
  IF S = {} THEN 0
  ELSE LET x == CHOOSE y \in S : TRUE IN f[x] + SumOver(f, S \ {x})

\* Mutant of fetch_add: the counter is stored, not added to.
fetch_add_store(cur, n) == n

\* AtomicU64::fetch_add: the new value of the counter (bounds keep it far
\* below 2^64, where it would wrap).
fetch_add(cur, n) == cur + n

\* ------------------------------------------------------------------- Init
\* The process as it starts: the prefix is any explored input.
InitCold ==
  /\ prefix \in Prefixes
  /\ mpc = "validate"
  /\ exit_code = -1
  /\ found = FALSE
  /\ total_iterations = 0
  /\ result_data = None
  /\ result = None
  /\ pc = [w \in Workers |-> "idle"]
  /\ local_iterations = [w \in Workers |-> 0]
  /\ pubkey = [w \in Workers |-> << >>]
  /\ final_iterations = [w \in Workers |-> 0]
  /\ spc = "idle"
  /\ last_count = 0
  /\ late_samples = 0
  /\ draws = 0
  /\ generated = [w \in Workers |-> 0]
  /\ overrun = [w \in Workers |-> 0]
  /\ slot_writers = << >>
  /\ console = << >>
  /\ written = {}
  /\ call = None
  /\ ret = None

\* The same run some time into the search: the prefix was admitted, every
\* worker is at the head of its loop having drawn Warm candidates of which
\* none matched, nothing was found, and the statistics thread has not yet
\* printed.  The shared counter holds the full batches published so far.
InitWarm ==
  /\ prefix \in { p \in Prefixes : main_is_valid_base58_prefix(p) }
  /\ mpc = "par_iter"
  /\ exit_code = -1
  /\ found = FALSE
  /\ local_iterations = [w \in Workers |-> Warm]
  /\ total_iterations =
       SumOver([w \in Workers |-> (local_iterations[w] \div BATCH) * BATCH], Workers)
  /\ result_data = None
  /\ result = None
  /\ pc = [w \in Workers |-> "check"]
  /\ pubkey = [w \in Workers |-> << >>]
  /\ final_iterations = [w \in Workers |-> 0]
  /\ spc = "check"
  /\ last_count = 0
  /\ late_samples = 0
  /\ draws = 0
  /\ generated = local_iterations
  /\ overrun = [w \in Workers |-> 0]
  /\ slot_writers = << >>
  /\ console = << >>
  /\ written = {}
  /\ call = None
  /\ ret = None

Init == InitCold \/ InitWarm

\* ------------------------------------------------------------ main thread
\* Mutant of MainReject: the diagnostic is printed but the process goes on.
MainReject_continue ==
  /\ mpc = "validate"
  /\ ~ main_is_valid_base58_prefix(prefix)
  /\ spc' = "check"
  /\ mpc' = "spawn"
  /\ UNCHANGED << libv, console, written, prefix, exit_code, result, shared,
                  last_count, late_samples, workv >>

\* main.rs:98-109: the prefix fails validation, the process exits with 1.
MainReject ==
  /\ mpc = "validate"
  /\ ~ main_is_valid_base58_prefix(prefix)
  /\ mpc' = "exited"
  /\ exit_code' = 1
  /\ UNCHANGED << libv, console, written, prefix, result, shared, statv, workv >>

\* main.rs:111-175: the shared state is created and the statistics thread
\* is spawned.
MainSpawnStats ==
  /\ mpc = "validate"
  /\ main_is_valid_base58_prefix(prefix)
  /\ found' = FALSE
  /\ total_iterations' = 0
  /\ spc' = "check"
  /\ last_count' = 0
  /\ late_samples' = 0
  /\ mpc' = "spawn"
  /\ UNCHANGED << libv, console, written, prefix, exit_code, result, result_data, workv >>

\* main.rs:178-188: the slot is created and for_each starts one closure per
\* index; the main thread blocks in for_each.
MainParIter ==
  /\ mpc = "spawn"
  /\ result_data' = None
  /\ pc' = [w \in Workers |-> "check"]
  /\ local_iterations' = [w \in Workers |-> 0]
  /\ mpc' = "par_iter"
  /\ UNCHANGED << libv, console, written, prefix, exit_code, result, found, total_iterations, statv,
                  pubkey, final_iterations, draws, generated, overrun, slot_writers >>

\* Mutant of WorkersJoined: for_each returns with the first closure.
WorkersJoined_any == \E w \in Workers : pc[w] = "done"

\* for_each returns when every closure has returned (main.rs:183-230).
WorkersJoined == \A w \in Workers : pc[w] = "done"

\* Mutant of MainForEachReturns: the slot is read as soon as for_each
\* returns, the statistics thread is not joined.
MainForEachReturns_read ==
  /\ mpc = "par_iter"
  /\ WorkersJoined
  /\ mpc' = "read"
  /\ UNCHANGED << libv, console, written, prefix, exit_code, result, shared, statv, workv >>

MainForEachReturns ==
  /\ mpc = "par_iter"
  /\ WorkersJoined
  /\ mpc' = "join_stats"
  /\ UNCHANGED << libv, console, written, prefix, exit_code, result, shared, statv, workv >>

\* Mutant of MainJoinStats: the statistics thread is not waited for.
MainJoinStats_nowait ==
  /\ mpc = "join_stats"
  /\ mpc' = "read"
  /\ UNCHANGED << libv, console, written, prefix, exit_code, result, shared, statv, workv >>

\* main.rs:233: stats_thread.join()
MainJoinStats ==
  /\ mpc = "join_stats"
  /\ spc = "done"
  /\ mpc' = "read"
  /\ UNCHANGED << libv, console, written, prefix, exit_code, result, shared, statv, workv >>

\* main.rs:236-240: result_data.lock().take(); with a record the process
\* goes on to publish it, without one it returns from main (exit code 0).
MainTake ==
  /\ mpc = "read"
  /\ result' = result_data
  /\ result_data' = None
  /\ mpc' = IF result_data # None THEN "summary" ELSE "done"
  /\ exit_code' = IF result_data # None THEN exit_code ELSE 0
  /\ UNCHANGED << libv, console, written, prefix, found, total_iterations, statv, workv >>

\* main.rs:241-259: the summary block (iterations, time, rate, luck factor).
MainSummary ==
  /\ mpc = "summary"
  /\ console' = Append(console, "summary")
  /\ mpc' = "mkdir"
  /\ UNCHANGED << libv, written, prefix, exit_code, result, shared, statv, workv >>

\* main.rs:277-278: the output directory is there already.
MainDirExists ==
  /\ mpc = "mkdir"
  /\ mpc' = "print"
  /\ UNCHANGED << libv, console, written, prefix, exit_code, result, shared, statv, workv >>

\* main.rs:278-279: the output directory is missing and is created.
MainCreateDir ==
  /\ mpc = "mkdir"
  /\ written' = written \cup { "dir" }
  /\ mpc' = "print"
  /\ UNCHANGED << libv, console, prefix, exit_code, result, shared, statv, workv >>

\* main.rs:279: fs::create_dir fails and expect() panics (exit code 101).
MainCreateDirFails ==
  /\ mpc = "mkdir"
  /\ mpc' = "panicked"
  /\ exit_code' = 101
  /\ UNCHANGED << libv, console, written, prefix, result, shared, statv, workv >>

\* main.rs:283-286 (json) and 293-302 (text): the mnemonic, the address and
\* the secret key are printed; both formats print before creating the file.
MainPrintResult ==
  /\ mpc = "print"
  /\ console' = Append(console, "candidate")
  /\ mpc' = "create"
  /\ UNCHANGED << libv, written, prefix, exit_code, result, shared, statv, workv >>

\* main.rs:288-292 and 331-335: the file is created and written; main
\* returns (exit code 0).
MainWriteFile ==
  /\ mpc = "create"
  /\ written' = written \cup { "file" }
  /\ mpc' = "done"
  /\ exit_code' = 0
  /\ UNCHANGED << libv, console, prefix, result, shared, statv, workv >>

\* main.rs:290-292 and 333-335: File::create or write_all fails and
\* expect() panics (exit code 101).
MainWriteFileFails ==
  /\ mpc = "create"
  /\ mpc' = "panicked"
  /\ exit_code' = 101
  /\ UNCHANGED << libv, console, written, prefix, result, shared, statv, workv >>

Main ==
  \/ MainReject \/ MainSpawnStats \/ MainParIter \/ MainForEachReturns
  \/ MainJoinStats \/ MainTake \/ MainSummary \/ MainDirExists
  \/ MainCreateDir \/ MainCreateDirFails \/ MainPrintResult
  \/ MainWriteFile \/ MainWriteFileFails

\* ------------------------------------------------------ statistics thread
\* Mutant of StatsCheck: the loop condition never ends the loop.
StatsCheck_noexit ==
  /\ spc = "check"
  /\ spc' = "sleep"
  /\ UNCHANGED << libv, last_count, late_samples, mainv, shared, workv >>

\* main.rs:140-141: the loop condition loads found; when it is false the
\* thread goes to sleep for one second.
StatsCheck ==
  /\ spc = "check"
  /\ spc' = IF found THEN "done" ELSE "sleep"
  /\ UNCHANGED << libv, last_count, late_samples, mainv, shared, workv >>

\* The history after one more status line: lines printed with found true
\* are counted up to two, one more than a single late line.
late_after_sample ==
  IF found /\ late_samples < 2 THEN late_samples + 1 ELSE late_samples

\* Mutant of StatsSample: the thread sleeps again without looking at found.
StatsSample_resleep ==
  /\ spc = "sleep"
  /\ last_count' = total_iterations
  /\ late_samples' = late_after_sample
  /\ spc' = "sleep"
  /\ UNCHANGED << libv, mainv, shared, workv >>

\* main.rs:143-173: the thread wakes, loads the counter, prints the status
\* line (elapsed is at least the second slept) and keeps the sample.
StatsSample ==
  /\ spc = "sleep"
  /\ last_count' = total_iterations
  /\ late_samples' = late_after_sample
  /\ spc' = "check"
  /\ UNCHANGED << libv, mainv, shared, workv >>

Stats == StatsCheck \/ StatsSample

\* ---------------------------------------------------------- search worker
\* Mutant of WorkerEnter: the body is entered without looking at found.
WorkerEnter_unchecked(w) ==
  /\ pc[w] = "check"
  /\ draws < MaxDraws
  /\ draws' = draws + 1
  /\ pc' = [pc EXCEPT ![w] = "gen"]
  /\ UNCHANGED << libv, mainv, shared, statv, local_iterations, pubkey,
                  final_iterations, generated, overrun, slot_writers >>

\* main.rs:190, the loop condition finds found = false: the body is entered.
WorkerEnter(w) ==
  /\ pc[w] = "check"
  /\ ~ found
  /\ draws < MaxDraws
  /\ draws' = draws + 1
  /\ pc' = [pc EXCEPT ![w] = "gen"]
  /\ UNCHANGED << libv, mainv, shared, statv, local_iterations, pubkey,
                  final_iterations, generated, overrun, slot_writers >>

\* main.rs:190, the loop condition finds found = true: the closure returns
\* without touching the counter or the slot.
WorkerExit(w) ==
  /\ pc[w] = "check"
  /\ found
  /\ pc' = [pc EXCEPT ![w] = "done"]
  /\ UNCHANGED << libv, mainv, shared, statv, local_iterations, pubkey,
                  final_iterations, draws, generated, overrun, slot_writers >>

\* Mutant of after_batch: the test of the address is inverted.
after_batch_inverted(a) == IF ~ starts_with(a, prefix) THEN "store" ELSE "check"

\* main.rs:210, where the thread goes once the batch step is behind it.
after_batch(a) == IF starts_with(a, prefix) THEN "store" ELSE "check"

\* main.rs:206, where the thread goes after local_iterations += 1.
after_increment(n, a) == IF n % BATCH = 0 THEN "batch" ELSE after_batch(a)

\* The candidate is kept while the thread still uses it; a candidate that
\* did not match is dropped at the end of the loop body.
kept(a, where) == IF where = "check" THEN << >> ELSE a

\* main.rs:191-203: one candidate is generated (its address is any address
\* the encoder can emit) and local_iterations is incremented.
WorkerGenerate(w) ==
  /\ pc[w] = "gen"
  /\ \E a \in Addresses :
       LET n == local_iterations[w] + 1
           where == after_increment(n, a)
       IN /\ local_iterations' = [local_iterations EXCEPT ![w] = n]
          /\ pubkey' = [pubkey EXCEPT ![w] = kept(a, where)]
          /\ pc' = [pc EXCEPT ![w] = where]
  /\ generated' = [generated EXCEPT ![w] = @ + 1]
  /\ overrun' = [overrun EXCEPT ![w] = IF found THEN @ + 1 ELSE @]
  /\ UNCHANGED << libv, mainv, shared, statv, final_iterations, draws, slot_writers >>

\* main.rs:206-208: a full batch is published.
WorkerBatch(w) ==
  /\ pc[w] = "batch"
  /\ total_iterations' = fetch_add(total_iterations, BATCH)
  /\ LET where == after_batch(pubkey[w])
     IN /\ pc' = [pc EXCEPT ![w] = where]
        /\ pubkey' = [pubkey EXCEPT ![w] = kept(@, where)]
  /\ UNCHANGED << libv, mainv, found, result_data, statv, local_iterations,
                  final_iterations, draws, generated, overrun, slot_writers >>

\* Mutant of WorkerStore: the match branch goes on without setting found.
WorkerStore_skip(w) ==
  /\ pc[w] = "store"
  /\ pc' = [pc EXCEPT ![w] = "flush"]
  /\ UNCHANGED << libv, mainv, shared, statv, local_iterations,
                  pubkey, final_iterations, draws, generated, overrun, slot_writers >>

\* main.rs:211: local_found.store(true)
WorkerStore(w) ==
  /\ pc[w] = "store"
  /\ found' = TRUE
  /\ pc' = [pc EXCEPT ![w] = "flush"]
  /\ UNCHANGED << libv, mainv, total_iterations, result_data, statv, local_iterations,
                  pubkey, final_iterations, draws, generated, overrun, slot_writers >>

\* Mutant of remainder: nothing is published on a match.
remainder_none(n) == 0

\* Mutant of remainder: the whole local count is published on a match.
remainder_whole(n) == n

\* main.rs:212, the amount of the last fetch_add.
remainder(n) == n % BATCH

\* main.rs:212: the rest of the local count is published.
WorkerFlush(w) ==
  /\ pc[w] = "flush"
  /\ total_iterations' = fetch_add(total_iterations, remainder(local_iterations[w]))
  /\ pc' = [pc EXCEPT ![w] = "load"]
  /\ UNCHANGED << libv, mainv, found, result_data, statv, local_iterations,
                  pubkey, final_iterations, draws, generated, overrun, slot_writers >>

\* Mutant of WorkerLoad: the count is the one the counter held before the
\* worker published the rest of its own.
WorkerLoad_before_flush(w) ==
  /\ pc[w] = "load"
  /\ final_iterations' =
       [final_iterations EXCEPT ![w] = total_iterations - remainder(local_iterations[w])]
  /\ pc' = [pc EXCEPT ![w] = "write"]
  /\ UNCHANGED << libv, mainv, shared, statv, local_iterations, pubkey,
                  draws, generated, overrun, slot_writers >>

\* main.rs:216: final_iterations = local_counter.load()
WorkerLoad(w) ==
  /\ pc[w] = "load"
  /\ final_iterations' = [final_iterations EXCEPT ![w] = total_iterations]
  /\ pc' = [pc EXCEPT ![w] = "write"]
  /\ UNCHANGED << libv, mainv, shared, statv, local_iterations, pubkey,
                  draws, generated, overrun, slot_writers >>

\* main.rs:192-200, the candidate of worker w's current loop body: the
\* mnemonic of the entropy just drawn and the keypair built from the first
\* 32 bytes of the mnemonic's seed.
main_mnemonic(w) == from_entropy_in(fill_bytes(w, local_iterations[w], 16))

main_keypair(w) == from_seed(first32(to_seed(main_mnemonic(w))))

\* Mutant of record: the fields are assigned one by one without the lock,
\* and the mnemonic of a concurrent writer survives.
record_torn(w) ==
  [ mnemonic |-> IF result_data # None THEN result_data.mnemonic
                 ELSE main_mnemonic(w),
    pubkey |-> pubkey[w],
    secret_key |-> bs58_encode(to_bytes(main_keypair(w))),
    keypair_bytes |-> to_bytes(main_keypair(w)),
    final_iterations |-> final_iterations[w] ]

\* main.rs:214-226, the record stored: the fields of the candidate and the
\* count just loaded (the elapsed time is not modelled).
record(w) ==
  [ mnemonic |-> main_mnemonic(w),
    pubkey |-> pubkey[w],
    secret_key |-> bs58_encode(to_bytes(main_keypair(w))),
    keypair_bytes |-> to_bytes(main_keypair(w)),
    final_iterations |-> final_iterations[w] ]

\* main.rs:219-227: the slot is locked, assigned and unlocked; the candidate
\* and the count are moved into it and the loop is left.
WorkerWrite(w) ==
  /\ pc[w] = "write"
  /\ result_data' = record(w)
  /\ slot_writers' = Append(slot_writers, w)
  /\ pubkey' = [pubkey EXCEPT ![w] = << >>]
  /\ final_iterations' = [final_iterations EXCEPT ![w] = 0]
  /\ pc' = [pc EXCEPT ![w] = "done"]
  /\ UNCHANGED << libv, mainv, found, total_iterations, statv, local_iterations,
                  draws, generated, overrun >>

Worker(w) ==
  \/ WorkerEnter(w) \/ WorkerExit(w) \/ WorkerGenerate(w) \/ WorkerBatch(w)
  \/ WorkerStore(w) \/ WorkerFlush(w) \/ WorkerLoad(w) \/ WorkerWrite(w)

\* ---------------------------------------------------------------- library
\* The library's functions called one after another, as its tests do, with
\* no search running.
InitLib ==
  /\ prefix = << >>
  /\ mpc = "lib"
  /\ exit_code = -1
  /\ found = FALSE
  /\ total_iterations = 0
  /\ result_data = None
  /\ result = None
  /\ pc = [w \in Workers |-> "idle"]
  /\ local_iterations = [w \in Workers |-> 0]
  /\ pubkey = [w \in Workers |-> << >>]
  /\ final_iterations = [w \in Workers |-> 0]
  /\ spc = "idle"
  /\ last_count = 0
  /\ late_samples = 0
  /\ draws = 0
  /\ generated = [w \in Workers |-> 0]
  /\ overrun = [w \in Workers |-> 0]
  /\ slot_writers = << >>
  /\ console = << >>
  /\ written = {}
  /\ call = None
  /\ ret = None

nonlib == << prefix, mpc, exit_code, shared, result, pc, local_iterations,
             pubkey, final_iterations, statv, generated, overrun,
             slot_writers, console, written >>

\* The modes earlier generate_keypair calls of this run were made in.
earlier_modes ==
  IF call = None THEN {} ELSE call.earlier \cup { call.with_mnemonic }

\* main.rs:115, calculate_expected_iterations(&args.prefix)
CallMainExpected ==
  /\ mpc = "lib" /\ call = None
  /\ \E p \in LibPrefixes, oc \in BOOLEAN :
       call' = [ fn |-> "main::calculate_expected_iterations", prefix |-> p,
                 overflow_checks |-> oc ]
  /\ ret' = None
  /\ UNCHANGED << nonlib, draws >>

\* lib.rs:105-107, calculate_expected_iterations("A") and the like
CallLibExpected ==
  /\ mpc = "lib" /\ call = None
  /\ \E p \in LibPrefixes, oc \in BOOLEAN :
       call' = [ fn |-> "lib::calculate_expected_iterations", prefix |-> p,
                 overflow_checks |-> oc ]
  /\ ret' = None
  /\ UNCHANGED << nonlib, draws >>

\* lib.rs:165 and 190, generate_keypair(false) and generate_keypair(true)
\* one call after another: each draws fresh bytes from the generator
CallGenerateKeypair ==
  /\ mpc = "lib"
  /\ IF call = None THEN TRUE
     ELSE call.fn = "generate_keypair" /\ ret # None
  /\ draws < MaxCalls
  /\ \E b \in BOOLEAN :
       call' = [ fn |-> "generate_keypair", with_mnemonic |-> b,
                 earlier |-> earlier_modes ]
  /\ ret' = None
  /\ draws' = draws + 1
  /\ UNCHANGED nonlib

Calling(fn) == mpc = "lib" /\ call # None /\ ret = None /\ call.fn = fn

ReturnMainExpected ==
  /\ Calling("main::calculate_expected_iterations")
  /\ ret' = main_calculate_expected_iterations(call.prefix, call.overflow_checks)
  /\ UNCHANGED << nonlib, call, draws >>

ReturnLibExpected ==
  /\ Calling("lib::calculate_expected_iterations")
  /\ ret' = lib_calculate_expected_iterations(call.prefix, call.overflow_checks)
  /\ UNCHANGED << nonlib, call, draws >>

ReturnGenerateKeypair ==
  /\ Calling("generate_keypair")
  /\ ret' = generate_keypair(call.with_mnemonic, "lib", draws)
  /\ UNCHANGED << nonlib, call, draws >>

LibNext ==
  \/ CallMainExpected
  \/ CallLibExpected
  \/ CallGenerateKeypair
  \/ ReturnMainExpected
  \/ ReturnLibExpected
  \/ ReturnGenerateKeypair

SpecLib == InitLib /\ [][LibNext]_vars

Next == Main \/ Stats \/ (\E w \in Workers : Worker(w))

Spec == Init /\ [][Next]_vars

\* The operating system schedules every thread that can run.
FairSpec ==
  /\ Spec
  /\ WF_vars(Main)
  /\ WF_vars(Stats)
  /\ \A w \in Workers : WF_vars(Worker(w))

\* ----------------------------------------------------------------- claims
\* The coordinator has taken the slot (main.rs:236 is behind it).
SlotTaken == mpc \in { "summary", "mkdir", "print", "create", "done", "panicked" }

AllWorkersDone == \A w \in Workers : pc[w] = "done"

TotalGenerated == SumOver(generated, Workers)

TotalOverrun == SumOver(overrun, Workers)

\* C1: the winning-result slot is written at most once per search, also when
\* several workers hold a matching candidate before any of them sees found.
C1_SlotWrittenAtMostOnce == Len(slot_writers) <= 1

\* C2: the coordinator takes the slot only after every worker has
\* terminated, and what it takes is never the absent result.
C2_ReadAfterWorkersNonEmpty ==
  /\ mpc = "read" => (AllWorkersDone /\ result_data # None)
  /\ SlotTaken => (AllWorkersDone /\ result # None)

C2_Witness == SlotTaken /\ result # None /\ result_data = None

\* C3: under fair scheduling, once a worker holds a matching candidate (or
\* found is true) every worker leaves its loop, the statistics thread exits
\* and the coordinator reaches and performs the read of the slot.
MatchGenerated ==
  \E w \in Workers : pubkey[w] # << >> /\ starts_with(pubkey[w], prefix)

SearchOver == AllWorkersDone /\ spc = "done" /\ SlotTaken

C3_MatchLeadsToTermination == (MatchGenerated \/ found) ~> SearchOver

C3_Witness == found /\ SearchOver /\ TotalGenerated > 0

\* C4: whenever the slot holds a record, and for the record the coordinator
\* took, the stored address starts with the requested prefix.
C4_StoredAddressHasPrefix ==
  /\ result_data # None => starts_with(result_data.pubkey, prefix)
  /\ result # None => starts_with(result.pubkey, prefix)

C4_Witness ==
  /\ SlotTaken
  /\ result # None
  /\ starts_with(result.pubkey, prefix)
  /\ Len(prefix) = MaxPrefixLen

\* C5: a worker generates at most one candidate while found is true, the
\* workers together at most W-1, and no worker enters the loop body on a
\* load of found that returned true.
C5_BoundedOverrun ==
  /\ [](/\ \A w \in Workers : overrun[w] <= 1
        /\ TotalOverrun <= NumWorkers - 1)
  /\ [][\A w \in Workers : (pc[w] = "check" /\ pc'[w] = "gen") => ~ found]_vars

C5_Witness == \E w \in Workers : overrun[w] = 1 /\ pc[w] = "done"

\* C6 as stated: once all workers have terminated the shared counter equals
\* the number of candidates generated by all workers.
C6_CounterEqualsGenerated ==
  AllWorkersDone => total_iterations = TotalGenerated

\* What a worker has published when it has terminated: all of its count if
\* it matched (it assigned the slot), the full batches of it otherwise.
Published(w) ==
  IF \E i \in DOMAIN slot_writers : slot_writers[i] = w
  THEN generated[w]
  ELSE generated[w] - (generated[w] % BATCH)

\* C6 as amended: once all workers have terminated the shared counter equals
\* the whole count of every worker that matched plus the full batches of
\* every worker that left at the loop condition.
C6_CounterEqualsPublished ==
  AllWorkersDone =>
    total_iterations = SumOver([w \in Workers |-> Published(w)], Workers)

C6_Witness ==
  /\ AllWorkersDone
  /\ total_iterations < TotalGenerated
  /\ \E w \in Workers : generated[w] % BATCH # 0 /\ Published(w) < generated[w]
  /\ \E w \in Workers : Published(w) = generated[w] /\ generated[w] > 0

\* C7: the shared counter never exceeds the number of candidates generated
\* so far and falls short of it by at most one batch per worker.
C7_CounterLagBounded ==
  /\ total_iterations <= TotalGenerated
  /\ TotalGenerated - total_iterations <= BATCH * NumWorkers

C7_Witness == TotalGenerated - total_iterations = BATCH * NumWorkers

\* C8: the shared counter never decreases, and every sample the statistics
\* thread keeps is at least its previous sample (current_count - last_count
\* does not underflow).
C8_CounterMonotone ==
  [][/\ total_iterations' >= total_iterations
     /\ last_count' >= last_count]_vars

C8_Witness == last_count >= BATCH /\ total_iterations > last_count

\* C9: each copy of the validator accepts exactly the non-empty texts over
\* the 58-symbol alphabet: the command line admits the prefix iff it is
\* such a text, and so does the library's copy.
IsBase58Text(p) == p # << >> /\ \A i \in DOMAIN p : p[i] \in BS58_ENCODE_ALPHABET

C9_ValidatorsExact ==
  /\ [][mpc = "validate" => (mpc' # "exited" <=> IsBase58Text(prefix))]_vars
  /\ [](lib_is_valid_base58_prefix(prefix) <=> IsBase58Text(prefix))

\* C10: every character of a prefix the command line admits is one the
\* address encoder emits, and some address starts with the prefix.
C10_AdmittedPrefixCanMatch ==
  [][(mpc = "validate" /\ mpc' # "exited") =>
       /\ \A i \in DOMAIN prefix : prefix[i] \in BS58_ENCODE_ALPHABET
       /\ \E a \in Addresses : starts_with(a, prefix)]_vars

\* An admitted prefix holding "I" is never matched: found stays false and
\* the coordinator never gets out of for_each.
DoomedSearch ==
  (\E i \in DOMAIN prefix : prefix[i] = "I") => (~ found /\ ~ SlotTaken)

\* C11: a prefix that fails validation makes the process exit with code 1
\* before any search state exists: no worker and no statistics thread runs,
\* found and the counter are untouched, nothing is printed of a result and
\* nothing is created on disk; the process takes no further step.
C11_RejectedBeforeSearch ==
  /\ [][(mpc = "validate" /\ ~ main_is_valid_base58_prefix(prefix)) =>
          (mpc' = "exited" /\ exit_code' = 1)]_vars
  /\ [](mpc = "exited" =>
          /\ exit_code = 1
          /\ \A w \in Workers : pc[w] = "idle" /\ generated[w] = 0
          /\ spc = "idle"
          /\ ~ found /\ total_iterations = 0 /\ result_data = None
          /\ console = << >> /\ written = {})
  /\ [][mpc # "exited"]_vars

C11_Witness ==
  /\ mpc = "exited"
  /\ exit_code = 1
  /\ Len(prefix) = MaxPrefixLen
  /\ prefix[1] = "A"

\* C12: when creating the output directory or the output file fails after
\* a successful search, the winning candidate is already on the console.
C12_PrintedBeforeIoFailure ==
  mpc = "panicked" => \E i \in DOMAIN console : console[i] = "candidate"

\* C13: the keypair of the candidate a worker stores is built from the seed
\* derived along m/44'/501'/0'/0' from the mnemonic's seed: it is the
\* keypair generate_keypair(true) yields for the same entropy.
C13_WorkerKeypairIsDerived ==
  result_data # None =>
    LET e == result_data.mnemonic.entropy
    IN result_data.keypair_bytes =
         to_bytes(generate_keypair(TRUE, e.who, e.n).keypair)

\* ---------------------------------------------------- difficulty estimate
ExpectedFns ==
  { "main::calculate_expected_iterations", "lib::calculate_expected_iterations" }

Returned(fns) == call # None /\ ret # None /\ call.fn \in fns

\* 58^n in the reference width, where it does not overflow.
RECURSIVE wide_pow58(_)
wide_pow58(n) ==
  IF n = 0 THEN limbs_of(1, WIDE_LIMBS)
  ELSE mul_from(wide_pow58(n - 1), 58, 1, 0).limbs

fits_u64(x) == \A i \in (U64_LIMBS + 1)..Len(x) : x[i] = 0

\* floor(58^n / 2) for n >= 1 in the reference width: 29 * 58^(n-1).
wide_expected(n) == mul_from(wide_pow58(n - 1), 29, 1, 0).limbs

zero_extend(x) == [ i \in 1..WIDE_LIMBS |-> IF i <= Len(x) THEN x[i] ELSE 0 ]

\* The number a u64 below 2^30 stands for.
to_nat(x) == x[1] + x[2] * LIMB

\* C14: calculate_expected_iterations never silently wraps: when 58^len
\* does not fit 64 bits (len >= 11) the call ends in an error, it does not
\* return a value reduced modulo 2^64.
C14_OverflowFlagged ==
  (Returned(ExpectedFns) /\ ~ fits_u64(wide_pow58(Len(call.prefix)))) =>
    ret.panicked

\* C15: for a prefix of length n, 1 <= n <= 10, calculate_expected_iterations
\* returns exactly floor(58^n / 2) (29, 1682, 97556 for n = 1, 2, 3), the
\* same for every prefix of that length and from both copies.
C15_ExpectedIterationsExact ==
  (Returned(ExpectedFns) /\ Len(call.prefix) \in 1..10) =>
    LET n == Len(call.prefix)
        oc == call.overflow_checks
    IN /\ ~ ret.panicked
       /\ zero_extend(ret.value) = wide_expected(n)
       /\ n <= 5 => to_nat(ret.value) = (58^n) \div 2
       /\ n = 1 => to_nat(ret.value) = 29
       /\ n = 2 => to_nat(ret.value) = 1682
       /\ n = 3 => to_nat(ret.value) = 97556
       /\ \A q \in { call.prefix, [i \in 1..n |-> "A"] } :
            /\ main_calculate_expected_iterations(q, oc) = ret
            /\ lib_calculate_expected_iterations(q, oc) = ret

C15_Witness ==
  /\ Returned({ "lib::calculate_expected_iterations" })
  /\ Len(call.prefix) = 10
  /\ call.prefix[1] # call.prefix[2]
  /\ ~ ret.panicked
  /\ ret.value[U64_LIMBS] # 0

\* ------------------------------------------------------------ generation
\* C16: generate_keypair(with_mnemonic) returns a mnemonic exactly when
\* with_mnemonic is true, in mnemonic mode one of exactly 12 words, whatever
\* modes the earlier calls were made in.
C16_MnemonicIffRequested ==
  Returned({ "generate_keypair" }) =>
    /\ (ret.mnemonic # None) <=> call.with_mnemonic
    /\ ret.mnemonic # None => ret.mnemonic.words = 12

C16_Witness ==
  /\ Returned({ "generate_keypair" })
  /\ call.with_mnemonic
  /\ call.earlier = { FALSE }
  /\ ret.mnemonic # None

\* ------------------------------------------------------- flag before slot
\* C17: found is set before any write to the slot: whenever the slot holds a
\* record found is true, no worker writes the slot with found false, and
\* found, once true, stays true.
C17_FoundBeforeSlot ==
  /\ [](result_data # None => found)
  /\ [](slot_writers # << >> => found)
  /\ [][\A w \in Workers : (pc[w] = "write" /\ pc'[w] = "done") => found]_vars
  /\ [][found => found']_vars

C17_Witness == result_data # None /\ found /\ Len(slot_writers) = 1

\* C18: the slot is never seen partly written: it is empty or holds a whole
\* record whose mnemonic, address, secret key and key bytes are those of one
\* candidate of one worker, also when several workers write it.
C18_SlotHoldsWholeCandidate ==
  /\ [](result_data # None =>
          LET m == result_data.mnemonic
              kp == from_seed(first32(to_seed(m)))
          IN /\ m.entropy.who \in Workers
             /\ result_data.keypair_bytes = to_bytes(kp)
             /\ result_data.secret_key = bs58_encode(to_bytes(kp))
             /\ m.entropy.n = local_iterations[m.entropy.who])
  /\ [][\A w \in Workers :
          (pc[w] = "write" /\ pc'[w] = "done") =>
            /\ result_data' # None
            /\ result_data'.mnemonic = main_mnemonic(w)
            /\ result_data'.pubkey = pubkey[w]
            /\ result_data'.keypair_bytes = to_bytes(main_keypair(w))
            /\ result_data'.secret_key = bs58_encode(to_bytes(main_keypair(w)))]_vars
  /\ [][result_data' # result_data =>
          \/ result_data' = None
          \/ \E w \in Workers : pc[w] = "write" /\ pc'[w] = "done"]_vars

C18_Witness ==
  /\ Len(slot_writers) = 2
  /\ result_data # None
  /\ result_data.mnemonic.entropy.who = slot_writers[2]

\* -------------------------------------------------------------- joining
\* C19 as stated: the statistics thread has exited by the time the main
\* thread observes that the workers have terminated.
C19_ReporterJoinedFirst == mpc = "join_stats" => spc = "done"

\* C19: the main thread first waits for every worker (for_each returns),
\* then joins the statistics thread; both have terminated before the slot
\* is read.
C19_WorkersThenReporter ==
  /\ [][(mpc = "par_iter" /\ mpc' # "par_iter") =>
          (AllWorkersDone /\ mpc' = "join_stats")]_vars
  /\ [][(mpc = "join_stats" /\ mpc' # "join_stats") =>
          (spc = "done" /\ mpc' = "read")]_vars
  /\ [](mpc = "join_stats" => AllWorkersDone)
  /\ []((mpc = "read" \/ SlotTaken) => (AllWorkersDone /\ spc = "done"))

C19_Witness == mpc = "join_stats" /\ AllWorkersDone /\ spc = "sleep" /\ found

\* ------------------------------------------------------ statistics thread
\* C20: once found is true the statistics thread finishes at most the sleep
\* it is in, prints at most one more status line and exits: it never goes
\* to sleep with found true.
C20_ReporterExitsPromptly ==
  /\ [](late_samples <= 1)
  /\ [][(spc = "check" /\ found) => spc' # "sleep"]_vars
  /\ [][(spc = "sleep" /\ found /\ spc' # spc) => (spc' = "check" /\ found')]_vars
  /\ []((late_samples = 1 /\ spc # "done") => (spc = "check" /\ found))

C20_Witness == late_samples = 1 /\ spc = "done"

\* ---------------------------------------------------- stored iteration count
\* The worker whose record the slot (or main's copy of it) holds.
WriterOf(r) == r.mnemonic.entropy.who

\* C21: the iteration count stored in the slot is at least 1, at least the
\* number of candidates its writer generated and at most the number all
\* workers had generated when it was written; the divisor of the luck
\* factor is never zero.
C21_StoredCountBounds ==
  /\ [][\A w \in Workers :
          (pc[w] = "write" /\ pc'[w] = "done") =>
            /\ result_data'.final_iterations >= 1
            /\ result_data'.final_iterations >= generated[w]
            /\ result_data'.final_iterations <= TotalGenerated]_vars
  /\ [](result_data # None =>
          /\ result_data.final_iterations >= 1
          /\ result_data.final_iterations >= generated[WriterOf(result_data)]
          /\ result_data.final_iterations <= TotalGenerated)
  /\ [](result # None => result.final_iterations >= 1)

C21_Witness ==
  /\ mpc = "mkdir"
  /\ result # None
  /\ result.final_iterations > generated[WriterOf(result)]
  /\ result.final_iterations <= TotalGenerated

\* ------------------------------------------------- progress before summary
\* C22: no status line is printed once the main thread has begun printing
\* the summary: the statistics thread has terminated before the slot is
\* read and the result displayed, and stays terminated.
C22_NoProgressAfterSummary ==
  /\ []((mpc = "read" \/ console # << >>) => spc = "done")
  /\ [][(console # << >> \/ console' # console) =>
          (spc' = spc /\ last_count' = last_count /\ late_samples' = late_samples)]_vars
  /\ [][spc = "done" => spc' = "done"]_vars

C22_Witness ==
  /\ console # << >>
  /\ console[1] = "summary"
  /\ spc = "done"
  /\ late_samples = 1
====
